---- MODULE Spec2Model ----
(***************************************************************************)
(* Model of the stock-market pipeline of proyecto_bolsa_concurrencia:      *)
(*   main.py                 the three phases, run one after the other     *)
(*   scraping_cotizacion.py  phase 1, the quote table                      *)
(*   scraping_finanzas.py    phase 2, one thread per company behind a      *)
(*                           semaphore, inserts serialised by a lock       *)
(*   analisis.py             phase 3, four stage threads and the merge     *)
(*                                                                         *)
(* Numbers of the data files are integers counted in tenths (120 is 12.0). *)
(* An optional number is a sequence: <<>> is None/NaN, <<x>> is x, and a   *)
(* quotient a/b is kept exactly as the pair <<a, b>>.                      *)
(***************************************************************************)
EXTENDS Integers, Sequences, FiniteSets, TLC

(* ---------------- bounds of the model ---------------- *)
\* how many of the configured companies take part
NumEmpresas == 2
\* largest value tried for max_hilos_concurrentes
MaxHilos == 2
\* how many times the program is run against the same files
MaxCorridas == 2

\* ejecutar_scraping_finanzas(3) in main()
HilosMain == 3
\* def ejecutar_scraping_finanzas(max_hilos_concurrentes=3)
HilosDefecto == 3

(* ---------------- scraping_finanzas.py: configuration ---------------- *)
EMPRESAS_TODAS ==
  << [name |-> "BBVA",       ticker |-> "BBVA"],
     [name |-> "CaixaBank",  ticker |-> "CABK"],
     [name |-> "Iberdrola",  ticker |-> "IBE"],
     [name |-> "Endesa",     ticker |-> "ELE"],
     [name |-> "Repsol",     ticker |-> "REP"],
     [name |-> "Telefonica", ticker |-> "TEF"],
     [name |-> "Inditex",    ticker |-> "ITX"],
     [name |-> "AENA",       ticker |-> "AENA"] >>

EMPRESAS == SubSeq(EMPRESAS_TODAS, 1, NumEmpresas)

\* one thread per company, named by the company's place in EMPRESAS
Hilos == 1..Len(EMPRESAS)

None == <<>>

(* The page the site serves for a company: the rows "label, number" of its *)
(* tables after convertir_num.  Each company has its own figures.          *)
PaginaDe(i) ==
  CASE i = 1 -> << <<"per", <<100>>>>, <<"bpa", <<20>>>>, <<"ebitda", <<20>>>>,
                   <<"beneficio", <<10>>>>, <<"deuda", <<100>>>> >>
    [] i = 2 -> << <<"per", <<250>>>>, <<"bpa", <<2>>>>, <<"ebitda", None>>,
                   <<"beneficio", <<40>>>>, <<"deuda", <<70>>>> >>
    [] i = 3 -> << <<"per", None>>, <<"bpa", <<10>>>>, <<"ebitda", <<0>>>>,
                   <<"beneficio", <<0>>>>, <<"deuda", <<30>>>> >>
    [] OTHER -> << <<"per", <<100 + i>>>>, <<"bpa", <<i>>>>, <<"ebitda", <<i>>>>,
                   <<"beneficio", <<i>>>>, <<"deuda", <<7 * i>>>>, <<"per", <<150 + i>>>> >>

\* extraer_finanzas: the last row whose label names the field, None without one
RECURSIVE UltimoValor(_, _, _)
UltimoValor(filas, clave, k) ==
  IF k = 0 THEN None
  ELSE IF filas[k][1] = clave THEN filas[k][2]
  ELSE UltimoValor(filas, clave, k - 1)

extraer_finanzas(html) ==
  [per       |-> UltimoValor(html, "per", Len(html)),
   bpa       |-> UltimoValor(html, "bpa", Len(html)),
   ebitda    |-> UltimoValor(html, "ebitda", Len(html)),
   beneficio |-> UltimoValor(html, "beneficio", Len(html)),
   deuda     |-> UltimoValor(html, "deuda", Len(html))]

SinDatos == [per |-> None, bpa |-> None, ebitda |-> None, beneficio |-> None, deuda |-> None]
SinFila == <<>>

VARIABLES
  programa,      \* the script that was run: "main", "finanzas" or "analisis"
  mainpc,        \* where its main thread is
  corrida,       \* which run of the program this is (also the clock of fecha_registro)
  error,         \* the exception that ended main(), "" when none
  cot_csv,       \* processed/cotizaciones_limpias.csv: <<>> when missing, else <<table>>
  fin_csv,       \* processed/finanzas_limpias.csv, likewise
  empresas,      \* table empresas of the database: row k has id k
  finanzas,      \* table finanzas of the database: the committed rows, row k has id k
  max_hilos,     \* max_hilos_concurrentes
  mapa,          \* mapa of ejecutar_scraping_finanzas: ticker -> id
  sem,           \* free slots of the semaphore
  lock,          \* holder of the pool's lock, 0 when free
  iniciados,     \* how many threads of hilos have been started
  unidos,        \* how many threads of hilos have been joined
  pc,            \* where each procesar_empresa thread is
  html,          \* local html of each thread
  datos,         \* local datos of each thread
  pendiente,     \* the row a thread's connection has inserted and not committed
  resultado,     \* the outcome lines each thread logged: "ok" (Guardado) or "error" (Fallo)
  df,            \* the merged table of ejecutar_analisis, <<>> before it is built
  paso,          \* how many start/join steps of ejecutar_analisis are done
  est,           \* where each stage thread h1..h4 is
  juntados,      \* the stage threads whose join() has returned
  lockA,         \* holder of the lock of ejecutar_analisis, "" when free
  resultados,    \* the dict resultados
  claves,        \* the keys of resultados in insertion order
  unido_csv,     \* processed/dataset_unido.csv
  final          \* analysis/analisis_resultados: <<>> when missing, else <<table>>

poolvars == <<max_hilos, mapa, sem, lock, iniciados, unidos, pc, html, datos,
              pendiente, resultado>>
filevars == <<cot_csv, fin_csv, empresas, finanzas>>
anavars == <<df, paso, est, juntados, lockA, resultados, claves>>
outvars == <<unido_csv, final>>
vars == <<programa, mainpc, corrida, error, filevars, poolvars, anavars, outvars>>

Etapas == {"h1", "h2", "h3", "h4"}

(* ---------------- the initial state: nothing on disk yet ---------------- *)
PoolInactivo ==
  /\ mapa = <<>>
  /\ sem = 0
  /\ lock = 0
  /\ iniciados = 0
  /\ unidos = 0
  /\ pc = [t \in Hilos |-> "sin_iniciar"]
  /\ html = [t \in Hilos |-> <<>>]
  /\ datos = [t \in Hilos |-> SinDatos]
  /\ pendiente = [t \in Hilos |-> SinFila]
  /\ resultado = [t \in Hilos |-> <<>>]

AnalisisInactivo ==
  /\ df = <<>>
  /\ paso = 0
  /\ est = [h \in Etapas |-> "pendiente"]
  /\ juntados = {}
  /\ lockA = ""
  /\ resultados = <<>>
  /\ claves = <<>>

\* the first step of each script
PrimeraFase(p) ==
  CASE p = "main" -> "fase1"
    [] p = "finanzas" -> "fase2"
    [] p = "analisis" -> "fase3"

\* main.py on a machine with no data yet; main() asks for HilosMain threads
Init ==
  /\ programa = "main"
  /\ mainpc = PrimeraFase(programa)
  /\ corrida = 1
  /\ error = ""
  /\ cot_csv = <<>>
  /\ fin_csv = <<>>
  /\ empresas = <<>>
  /\ finanzas = <<>>
  /\ max_hilos = HilosMain
  /\ PoolInactivo
  /\ AnalisisInactivo
  /\ unido_csv = <<>>
  /\ final = <<>>

(* ---------------- scraping_cotizacion.py ---------------- *)
\* the cleaned quote table of the first n companies
CotDe(n) ==
  [k \in 1..n |-> [name |-> EMPRESAS[k].name, value |-> <<10 * k>>, var |-> <<k>>,
                   max |-> <<10 * k + 1>>, min |-> <<10 * k - 1>>]]

\* what the site may list: every company, or every company but the last
TablasSitio == {CotDe(Len(EMPRESAS)), CotDe(Len(EMPRESAS) - 1)} \ {<<>>}

\* the whole body is inside try/except: a failure leaves the file as it was
ejecutar_scraping_cotizacion ==
  /\ mainpc = "fase1"
  /\ \/ \E tabla \in TablasSitio : cot_csv' = <<tabla>>
     \/ UNCHANGED cot_csv
  /\ mainpc' = "fase2"
  /\ UNCHANGED <<programa, corrida, error, fin_csv, empresas, finanzas, poolvars, anavars, outvars>>

(* ---------------- scraping_finanzas.py: the database ---------------- *)
Tickers(tabla) == {tabla[k].ticker : k \in 1..Len(tabla)}

\* a plain INSERT of every company, whether or not its ticker is there
RECURSIVE InsertSiempre(_, _)
InsertSiempre(tabla, k) ==
  IF k > Len(EMPRESAS) THEN tabla
  ELSE InsertSiempre(Append(tabla, [nombre |-> EMPRESAS[k].name,
                                    ticker |-> EMPRESAS[k].ticker]), k + 1)

\* INSERT OR IGNORE of every company, in the order of EMPRESAS
RECURSIVE InsertOrIgnore(_, _)
InsertOrIgnore(tabla, k) ==
  IF k > Len(EMPRESAS) THEN tabla
  ELSE IF EMPRESAS[k].ticker \in Tickers(tabla) THEN InsertOrIgnore(tabla, k + 1)
  ELSE InsertOrIgnore(Append(tabla, [nombre |-> EMPRESAS[k].name,
                                     ticker |-> EMPRESAS[k].ticker]), k + 1)

\* SELECT id, ticker FROM empresas, as the dict ticker -> id: in the dict
\* comprehension a later row of the same ticker replaces an earlier one
MapaDe(tabla) ==
  [tk \in Tickers(tabla) |->
     CHOOSE k \in 1..Len(tabla) :
       /\ tabla[k].ticker = tk
       /\ \A j \in (k + 1)..Len(tabla) : tabla[j].ticker # tk]

\* SELECT ... FROM finanzas JOIN empresas ON empresas.id = finanzas.empresa_id
RECURSIVE Consulta(_, _, _)
Consulta(fin, emp, k) ==
  IF k > Len(fin) THEN <<>>
  ELSE (IF fin[k].empresa_id \in 1..Len(emp)
        THEN << [nombre |-> emp[fin[k].empresa_id].nombre,
                 ticker |-> emp[fin[k].empresa_id].ticker,
                 per |-> fin[k].per, bpa |-> fin[k].bpa, ebitda |-> fin[k].ebitda,
                 beneficio |-> fin[k].beneficio, deuda |-> fin[k].deuda,
                 fecha_registro |-> fin[k].fecha_registro] >>
        ELSE <<>>) \o Consulta(fin, emp, k + 1)

\* the row of the INSERT statement
Fila(empresa_id, fecha, d) ==
  [empresa_id |-> empresa_id, fecha_registro |-> fecha,
   per |-> d.per, bpa |-> d.bpa, ebitda |-> d.ebitda,
   beneficio |-> d.beneficio, deuda |-> d.deuda]

\* the rows a run r commits when the threads of the companies in S succeed
RECURSIVE FilasDeCorrida(_, _, _)
FilasDeCorrida(S, r, t) ==
  IF t > Len(EMPRESAS) THEN <<>>
  ELSE (IF t \in S THEN << Fila(t, r, extraer_finanzas(PaginaDe(t))) >> ELSE <<>>)
       \o FilasDeCorrida(S, r, t + 1)

\* the contents of table finanzas after r runs
RECURSIVE TablasTras(_)
TablasTras(r) ==
  IF r = 0 THEN {<<>>}
  ELSE {f \o FilasDeCorrida(S, r, 1) : f \in TablasTras(r - 1), S \in SUBSET Hilos}

\* ejecutar_scraping_finanzas(max_hilos_concurrentes), called on a machine with no
\* data yet or on the database that MaxCorridas - 1 earlier runs have left
InitPool ==
  /\ programa = "finanzas"
  /\ mainpc = PrimeraFase(programa)
  /\ error = ""
  /\ cot_csv = <<>>
  /\ \/ /\ corrida = 1
        /\ empresas = <<>>
        /\ finanzas = <<>>
        /\ fin_csv = <<>>
     \/ /\ corrida = MaxCorridas
        /\ empresas = InsertOrIgnore(<<>>, 1)
        /\ finanzas \in TablasTras(MaxCorridas - 1)
        /\ fin_csv = << Consulta(finanzas, empresas, 1) >>
  /\ max_hilos \in 1..MaxHilos
  /\ PoolInactivo
  /\ AnalisisInactivo
  /\ unido_csv = <<>>
  /\ final = <<>>

IniciarPool ==
  /\ mainpc = "fase2"
  /\ empresas' = InsertOrIgnore(empresas, 1)
  /\ mapa' = MapaDe(empresas')
  /\ lock' = 0
  /\ sem' = max_hilos
  /\ iniciados' = 0
  /\ unidos' = 0
  /\ pc' = [t \in Hilos |-> "sin_iniciar"]
  /\ html' = [t \in Hilos |-> <<>>]
  /\ datos' = [t \in Hilos |-> SinDatos]
  /\ pendiente' = [t \in Hilos |-> SinFila]
  /\ resultado' = [t \in Hilos |-> <<>>]
  /\ mainpc' = "arrancar"
  /\ UNCHANGED <<programa, corrida, error, cot_csv, fin_csv, finanzas, max_hilos, anavars, outvars>>

(* ---------------- scraping_finanzas.py: procesar_empresa ---------------- *)
\* the except branch: the failure is logged, then the finally clause runs
Fallo(t) ==
  /\ resultado' = [resultado EXCEPT ![t] = Append(@, "error")]
  /\ pc' = [pc EXCEPT ![t] = "finally"]

\* a gate that lets a thread in without a free slot
SemAcquireSinEspera(t) ==
  /\ pc[t] = "acquire"
  /\ sem' = sem - 1
  /\ pc' = [pc EXCEPT ![t] = "descargar"]
  /\ UNCHANGED <<programa, mainpc, corrida, error, filevars, max_hilos, mapa, lock,
                 iniciados, unidos, html, datos, pendiente, resultado, anavars, outvars>>

\* sem.acquire(): blocks while no slot is free
SemAcquire(t) ==
  /\ pc[t] = "acquire"
  /\ sem > 0
  /\ sem' = sem - 1
  /\ pc' = [pc EXCEPT ![t] = "descargar"]
  /\ UNCHANGED <<programa, mainpc, corrida, error, filevars, max_hilos, mapa, lock, iniciados,
                 unidos, html, datos, pendiente, resultado, anavars, outvars>>

\* html = descargar_html(url); datos = extraer_finanzas(html); the lookup of the
\* company's id, the connection and the timestamp: all local to the thread
Descargar(t) ==
  /\ pc[t] = "descargar"
  /\ html' = [html EXCEPT ![t] = PaginaDe(t)]
  /\ datos' = [datos EXCEPT ![t] = extraer_finanzas(html'[t])]
  /\ pc' = [pc EXCEPT ![t] = "lock"]
  /\ UNCHANGED <<programa, mainpc, corrida, error, filevars, max_hilos, mapa, sem, lock,
                 iniciados, unidos, pendiente, resultado, anavars, outvars>>

\* requests.get times out or raise_for_status raises
DescargarFalla(t) ==
  /\ pc[t] = "descargar"
  /\ Fallo(t)
  /\ UNCHANGED <<programa, mainpc, corrida, error, filevars, max_hilos, mapa, sem, lock,
                 iniciados, unidos, html, datos, pendiente, anavars, outvars>>

\* the page arrives and the parser, or sqlite3.connect after it, raises
ExtraerFalla(t) ==
  /\ pc[t] = "descargar"
  /\ html' = [html EXCEPT ![t] = PaginaDe(t)]
  /\ Fallo(t)
  /\ UNCHANGED <<programa, mainpc, corrida, error, filevars, max_hilos, mapa, sem, lock,
                 iniciados, unidos, datos, pendiente, anavars, outvars>>

\* a with block that does not wait for the lock
LockAcquireSinEspera(t) ==
  /\ pc[t] = "lock"
  /\ lock' = t
  /\ pc' = [pc EXCEPT ![t] = "insert"]
  /\ UNCHANGED <<programa, mainpc, corrida, error, filevars, max_hilos, mapa, sem,
                 iniciados, unidos, html, datos, pendiente, resultado, anavars, outvars>>

\* with lock: blocks while another thread holds it
LockAcquire(t) ==
  /\ pc[t] = "lock"
  /\ lock = 0
  /\ lock' = t
  /\ pc' = [pc EXCEPT ![t] = "insert"]
  /\ UNCHANGED <<programa, mainpc, corrida, error, filevars, max_hilos, mapa, sem, iniciados,
                 unidos, html, datos, pendiente, resultado, anavars, outvars>>

\* datetime.now() is the number of the run: runs follow one another in time
FilaDe(t) == Fila(mapa[EMPRESAS[t].ticker], corrida, datos[t])

\* a connection in autocommit mode: the row is in the table before commit()
InsertOkAutocommit(t) ==
  /\ pc[t] = "insert"
  /\ finanzas' = Append(finanzas, FilaDe(t))
  /\ pendiente' = [pendiente EXCEPT ![t] = <<FilaDe(t)>>]
  /\ pc' = [pc EXCEPT ![t] = "commit"]
  /\ UNCHANGED <<programa, mainpc, corrida, error, cot_csv, fin_csv, empresas, max_hilos,
                 mapa, sem, lock, iniciados, unidos, html, datos, resultado, anavars,
                 outvars>>

\* cur.execute(INSERT ...): the row is in the thread's open transaction
InsertOk(t) ==
  /\ pc[t] = "insert"
  /\ pendiente' = [pendiente EXCEPT ![t] = <<FilaDe(t)>>]
  /\ pc' = [pc EXCEPT ![t] = "commit"]
  /\ UNCHANGED <<programa, mainpc, corrida, error, filevars, max_hilos, mapa, sem, lock,
                 iniciados, unidos, html, datos, resultado, anavars, outvars>>

\* an INSERT that fails with the lock still held
InsertFallaConLock(t) ==
  /\ pc[t] = "insert"
  /\ Fallo(t)
  /\ UNCHANGED <<programa, mainpc, corrida, error, filevars, max_hilos, mapa, sem, lock,
                 iniciados, unidos, html, datos, pendiente, anavars, outvars>>

\* cur.execute raises: leaving the with block frees the lock
InsertFalla(t) ==
  /\ pc[t] = "insert"
  /\ lock' = 0
  /\ Fallo(t)
  /\ UNCHANGED <<programa, mainpc, corrida, error, filevars, max_hilos, mapa, sem, iniciados,
                 unidos, html, datos, pendiente, anavars, outvars>>

CommitOk(t) ==
  /\ pc[t] = "commit"
  /\ finanzas' = finanzas \o pendiente[t]
  /\ pendiente' = [pendiente EXCEPT ![t] = SinFila]
  /\ pc' = [pc EXCEPT ![t] = "unlock"]
  /\ UNCHANGED <<programa, mainpc, corrida, error, cot_csv, fin_csv, empresas, max_hilos, mapa,
                 sem, lock, iniciados, unidos, html, datos, resultado, anavars, outvars>>

\* conn.commit raises: the row stays uncommitted in the thread's connection
CommitFalla(t) ==
  /\ pc[t] = "commit"
  /\ lock' = 0
  /\ Fallo(t)
  /\ UNCHANGED <<programa, mainpc, corrida, error, filevars, max_hilos, mapa, sem, iniciados,
                 unidos, html, datos, pendiente, anavars, outvars>>

\* end of the with block, conn.close() and the "Guardado" log line
LockRelease(t) ==
  /\ pc[t] = "unlock"
  /\ lock' = 0
  /\ resultado' = [resultado EXCEPT ![t] = Append(@, "ok")]
  /\ pc' = [pc EXCEPT ![t] = "finally"]
  /\ UNCHANGED <<programa, mainpc, corrida, error, filevars, max_hilos, mapa, sem, iniciados,
                 unidos, html, datos, pendiente, anavars, outvars>>

\* a finally clause that drops the connection and leaves the slot taken
SemReleaseSinLiberar(t) ==
  /\ pc[t] = "finally"
  /\ pendiente' = [pendiente EXCEPT ![t] = SinFila]
  /\ pc' = [pc EXCEPT ![t] = "fin"]
  /\ UNCHANGED <<programa, mainpc, corrida, error, filevars, max_hilos, mapa, sem, lock,
                 iniciados, unidos, html, datos, resultado, anavars, outvars>>

\* finally: sem.release(); the function returns and its connection is dropped,
\* which rolls back what it had not committed
SemRelease(t) ==
  /\ pc[t] = "finally"
  /\ sem' = sem + 1
  /\ pendiente' = [pendiente EXCEPT ![t] = SinFila]
  /\ pc' = [pc EXCEPT ![t] = "fin"]
  /\ UNCHANGED <<programa, mainpc, corrida, error, filevars, max_hilos, mapa, lock, iniciados,
                 unidos, html, datos, resultado, anavars, outvars>>

procesar_empresa(t) ==
  \/ SemAcquire(t)
  \/ Descargar(t)
  \/ DescargarFalla(t)
  \/ ExtraerFalla(t)
  \/ LockAcquire(t)
  \/ InsertOk(t)
  \/ InsertFalla(t)
  \/ CommitOk(t)
  \/ CommitFalla(t)
  \/ LockRelease(t)
  \/ SemRelease(t)

(* ---------------- scraping_finanzas.py: ejecutar_scraping_finanzas ---------------- *)
\* th.start() of the next company of the for loop
ArrancarHilo ==
  /\ mainpc = "arrancar"
  /\ iniciados' = iniciados + 1
  /\ pc' = [pc EXCEPT ![iniciados + 1] = "acquire"]
  /\ mainpc' = IF iniciados' = Len(EMPRESAS) THEN "unir" ELSE "arrancar"
  /\ UNCHANGED <<programa, corrida, error, filevars, max_hilos, mapa, sem, lock, unidos, html,
                 datos, pendiente, resultado, anavars, outvars>>

\* a join that returns at once
UnirHiloSinEsperar ==
  /\ mainpc = "unir"
  /\ unidos' = unidos + 1
  /\ mainpc' = IF unidos' = Len(EMPRESAS) THEN "exportar" ELSE "unir"
  /\ UNCHANGED <<programa, corrida, error, filevars, max_hilos, mapa, sem, lock, iniciados,
                 pc, html, datos, pendiente, resultado, anavars, outvars>>

\* h.join() of the next thread of hilos: blocks until that thread has ended
UnirHilo ==
  /\ mainpc = "unir"
  /\ pc[unidos + 1] = "fin"
  /\ unidos' = unidos + 1
  /\ mainpc' = IF unidos' = Len(EMPRESAS) THEN "exportar" ELSE "unir"
  /\ UNCHANGED <<programa, corrida, error, filevars, max_hilos, mapa, sem, lock, iniciados, pc,
                 html, datos, pendiente, resultado, anavars, outvars>>

Exportar ==
  /\ mainpc = "exportar"
  /\ fin_csv' = << Consulta(finanzas, empresas, 1) >>
  /\ mainpc' = IF programa = "main" THEN "fase3" ELSE "fin"
  /\ UNCHANGED <<programa, corrida, error, cot_csv, empresas, finanzas, poolvars, anavars, outvars>>

(* ---------------- analisis.py: loading and merging ---------------- *)
Get(r, c, d) == IF c \in DOMAIN r THEN r[c] ELSE d

SinCotizacion == [value |-> None, var |-> None, max |-> None, min |-> None]

\* the rows of cot whose name is nombre, reduced to value, var, max, min
RECURSIVE Coincidencias(_, _, _)
Coincidencias(cot, nombre, k) ==
  IF k > Len(cot) THEN <<>>
  ELSE (IF cot[k].name = nombre
        THEN << [value |-> cot[k].value, var |-> cot[k].var,
                 max |-> cot[k].max, min |-> cot[k].min] >>
        ELSE <<>>) \o Coincidencias(cot, nombre, k + 1)

\* pd.merge(fin, cot, left_on="nombre", right_on="name", how="left"), name dropped:
\* every row of fin once per matching quote, or once with empty quote columns
RECURSIVE Merge(_, _, _)
Merge(fin, cot, k) ==
  IF k > Len(fin) THEN <<>>
  ELSE LET m == Coincidencias(cot, fin[k].nombre, 1)
           q == IF m = <<>> THEN <<SinCotizacion>> ELSE m
       IN [j \in 1..Len(q) |-> fin[k] @@ q[j]] \o Merge(fin, cot, k + 1)

\* obtener_cotizaciones_limpias, obtener_finanzas_limpias and the merge
CargarDatos ==
  /\ mainpc = "fase3"
  /\ IF cot_csv = <<>> \/ fin_csv = <<>>
     THEN /\ error' = "FileNotFoundError"
          /\ mainpc' = "abortado"
          /\ UNCHANGED <<df, resultados, claves, lockA>>
     ELSE /\ df' = Merge(fin_csv[1], cot_csv[1], 1)
          /\ resultados' = <<>>
          /\ claves' = <<>>
          /\ lockA' = ""
          /\ mainpc' = "etapas"
          /\ UNCHANGED error
  /\ UNCHANGED <<programa, corrida, filevars, poolvars, paso, est, juntados, outvars>>

(* ---------------- analisis.py: the stage functions ---------------- *)
\* the division without the test b == 0
safe_ratio_sin_cero(a, b) ==
  IF a = None THEN None
  ELSE IF b = None THEN None
  ELSE <<a[1], b[1]>>

safe_ratio(a, b) ==
  IF a = None THEN None
  ELSE IF b = None \/ b[1] = 0 THEN None
  ELSE <<a[1], b[1]>>

\* the two ratio columns, row by row
Ratios(d) ==
  [i \in 1..Len(d) |-> [deuda_ebitda     |-> safe_ratio(d[i].deuda, d[i].ebitda),
                        ebitda_beneficio |-> safe_ratio(d[i].ebitda, d[i].beneficio)]]

\* a cell that is not a number: float(x) raises ValueError on it
Texto == <<"n", "d">>
\* float(x) succeeds
EsNumero(x) == Len(x) = 1

\* the first bound taken inclusive
per_sig_inclusivo(x) ==
  IF x = None THEN "Desconocido"
  ELSE IF ~EsNumero(x) THEN "Desconocido"
  ELSE IF x[1] <= 120 THEN "Barata"
  ELSE IF x[1] < 200 THEN "Media"
  ELSE "Cara"

\* x < 12, x < 20 of per_sig, on numbers counted in tenths; the except clause
\* returns "Desconocido" when float(x) raises
per_sig(x) ==
  IF x = None THEN "Desconocido"
  ELSE IF ~EsNumero(x) THEN "Desconocido"
  ELSE IF x[1] < 120 THEN "Barata"
  ELSE IF x[1] < 200 THEN "Media"
  ELSE "Cara"

\* x < 0.5, x < 1.5 of bpa_sig, on numbers counted in tenths; the except clause
\* returns "Desconocido" when float(x) raises
bpa_sig(x) ==
  IF x = None THEN "Desconocido"
  ELSE IF ~EsNumero(x) THEN "Desconocido"
  ELSE IF x[1] < 5 THEN "Debil"
  ELSE IF x[1] < 15 THEN "Media"
  ELSE "Alta"

Senales(d) ==
  [i \in 1..Len(d) |-> [per_senal |-> per_sig(d[i].per), bpa_senal |-> bpa_sig(d[i].bpa)]]

\* q < n in the place of q <= n
MenorEstricto(q, n) == IF q[2] > 0 THEN q[1] < n * q[2] ELSE q[1] > n * q[2]

\* q <= n and q >= n for a quotient q = <<a, b>>, b # 0
Menor(q, n) == IF q[2] > 0 THEN q[1] <= n * q[2] ELSE q[1] >= n * q[2]

Mayor(q, n) == IF q[2] > 0 THEN q[1] >= n * q[2] ELSE q[1] <= n * q[2]

\* the rule, applied to a row r of the table the stage was given
recomendar(r) ==
  LET per == Get(r, "per_senal", "Desconocido")
      bpa == Get(r, "bpa_senal", "Desconocido")
      deuda_ebitda == Get(r, "deuda_ebitda", None)
      deuda_ok == deuda_ebitda # None
  IN IF /\ per \in {"Barata", "Media"}
        /\ bpa \in {"Media", "Alta"}
        /\ (~deuda_ok \/ Menor(deuda_ebitda, 6))
     THEN "Comprar"
     ELSE IF /\ per = "Cara"
             /\ bpa = "Debil"
             /\ (~deuda_ok \/ Mayor(deuda_ebitda, 4))
     THEN "Vender"
     ELSE "Mantener"

\* calcular_recomendacion: temp = df.copy(); temp.apply(recomendar, axis=1)
Recomendaciones(d) == [i \in 1..Len(d) |-> [recomendacion |-> recomendar(d[i])]]

RutaUnido == "processed/dataset_unido.csv"

\* what each stage stores in resultados, and under which key
ClaveDe(h) ==
  CASE h = "h1" -> "ratios"
    [] h = "h2" -> "senales"
    [] h = "h3" -> "recomend"
    [] h = "h4" -> "dataset_unido"

ValorDe(h, d) ==
  CASE h = "h1" -> Ratios(d)
    [] h = "h2" -> Senales(d)
    [] h = "h3" -> Recomendaciones(d)
    [] h = "h4" -> RutaUnido

(* ---------------- analisis.py: the stage threads ---------------- *)
\* the stage computes on df itself, not on df.copy(): its new columns are
\* added to the shared table
CalcularEnSitio(h) ==
  /\ est[h] = "calcular"
  /\ est' = [est EXCEPT ![h] = "lock"]
  /\ unido_csv' = IF h = "h4" THEN <<df>> ELSE unido_csv
  /\ df' = IF h = "h4" THEN df ELSE [i \in 1..Len(df) |-> ValorDe(h, df)[i] @@ df[i]]
  /\ UNCHANGED <<programa, mainpc, corrida, error, filevars, poolvars, paso, juntados, lockA,
                 resultados, claves, final>>

\* the body of a stage up to its "with lock": the copy and the apply calls;
\* procesar_dataset_unido writes df to processed/dataset_unido.csv here
Calcular(h) ==
  /\ est[h] = "calcular"
  /\ est' = [est EXCEPT ![h] = "lock"]
  /\ unido_csv' = IF h = "h4" THEN <<df>> ELSE unido_csv
  /\ UNCHANGED <<programa, mainpc, corrida, error, filevars, poolvars, df, paso, juntados, lockA,
                 resultados, claves, final>>

\* the body raises (pandas rejects the data, to_csv cannot write): the thread
\* ends with the exception, which threading prints and does not pass on
EtapaFalla(h) ==
  /\ est[h] = "calcular"
  /\ est' = [est EXCEPT ![h] = "muerto"]
  /\ UNCHANGED <<programa, mainpc, corrida, error, filevars, poolvars, df, paso, juntados, lockA,
                 resultados, claves, outvars>>

EntrarLock(h) ==
  /\ est[h] = "lock"
  /\ lockA = ""
  /\ lockA' = h
  /\ est' = [est EXCEPT ![h] = "publicar"]
  /\ UNCHANGED <<programa, mainpc, corrida, error, filevars, poolvars, df, paso, juntados,
                 resultados, claves, outvars>>

\* resultados[key] = value, a dict keeps its keys in insertion order
Poner(dic, k, v) == (k :> v) @@ dic
Anotar(orden, k) == IF \E j \in 1..Len(orden) : orden[j] = k THEN orden ELSE Append(orden, k)

\* the assignment inside "with lock", and the end of the with block
Publicar(h) ==
  /\ est[h] = "publicar"
  /\ resultados' = Poner(resultados, ClaveDe(h), ValorDe(h, df))
  /\ claves' = Anotar(claves, ClaveDe(h))
  /\ lockA' = ""
  /\ est' = [est EXCEPT ![h] = "fin"]
  /\ UNCHANGED <<programa, mainpc, corrida, error, filevars, poolvars, df, paso, juntados, outvars>>

Etapa(h) == Calcular(h) \/ EtapaFalla(h) \/ EntrarLock(h) \/ Publicar(h)

(* ---------------- analisis.py: ejecutar_analisis ---------------- *)
\* the four threads started together and joined afterwards
OrdenSinBarrera ==
  << <<"start", "h1">>, <<"start", "h2">>, <<"start", "h3">>, <<"start", "h4">>,
     <<"join", "h1">>, <<"join", "h2">>, <<"join", "h3">>, <<"join", "h4">> >>

\* h4 started with h1 and h2, before the first two joins
OrdenTresALaVez ==
  << <<"start", "h1">>, <<"start", "h2">>, <<"start", "h4">>, <<"join", "h1">>,
     <<"join", "h2">>, <<"start", "h3">>, <<"join", "h3">>, <<"join", "h4">> >>

\* the start() and join() calls in program order
OrdenAnalisis ==
  << <<"start", "h1">>, <<"start", "h2">>, <<"join", "h1">>, <<"join", "h2">>,
     <<"start", "h3">>, <<"start", "h4">>, <<"join", "h3">>, <<"join", "h4">> >>

Avanzar == 
  /\ paso' = paso + 1
  /\ mainpc' = IF paso' = Len(OrdenAnalisis) THEN "concat" ELSE "etapas"

Start ==
  /\ mainpc = "etapas"
  /\ OrdenAnalisis[paso + 1][1] = "start"
  /\ est' = [est EXCEPT ![OrdenAnalisis[paso + 1][2]] = "calcular"]
  /\ Avanzar
  /\ UNCHANGED <<programa, corrida, error, filevars, poolvars, df, juntados, lockA, resultados,
                 claves, outvars>>

\* a join() that returns at once, whatever the thread is doing
JoinSinEsperar ==
  /\ mainpc = "etapas"
  /\ OrdenAnalisis[paso + 1][1] = "join"
  /\ juntados' = juntados \cup {OrdenAnalisis[paso + 1][2]}
  /\ Avanzar
  /\ UNCHANGED <<programa, corrida, error, filevars, poolvars, df, est, lockA, resultados,
                 claves, outvars>>

\* join() returns once the thread has ended, normally or by an exception
Join ==
  /\ mainpc = "etapas"
  /\ OrdenAnalisis[paso + 1][1] = "join"
  /\ est[OrdenAnalisis[paso + 1][2]] \in {"fin", "muerto"}
  /\ juntados' = juntados \cup {OrdenAnalisis[paso + 1][2]}
  /\ Avanzar
  /\ UNCHANGED <<programa, corrida, error, filevars, poolvars, df, est, lockA, resultados,
                 claves, outvars>>

\* a table: its column names in order and its rows, indexed 1..n
ColumnasDf == <<"nombre", "ticker", "per", "bpa", "ebitda", "beneficio", "deuda",
                "fecha_registro", "value", "var", "max", "min">>
ColumnasDe(k) ==
  CASE k = "ratios" -> <<"deuda_ebitda", "ebitda_beneficio">>
    [] k = "senales" -> <<"per_senal", "bpa_senal">>
    [] k = "recomend" -> <<"recomendacion">>

Max(a, b) == IF a >= b THEN a ELSE b

\* the row of a part at index i, empty cells when the part has no such index
FilaEn(cols, filas, i) ==
  IF i <= Len(filas) THEN filas[i] ELSE [c \in {cols[j] : j \in 1..Len(cols)} |-> None]

\* pd.concat(partes, axis=1): the columns side by side in the order of partes,
\* the rows aligned on the index
RECURSIVE Concat(_)
Concat(partes) ==
  IF Len(partes) = 1 THEN partes[1]
  ELSE LET a == partes[1]
           b == Concat(Tail(partes))
           n == Max(Len(a.filas), Len(b.filas))
       IN [cols  |-> a.cols \o b.cols,
           filas |-> [i \in 1..n |-> FilaEn(a.cols, a.filas, i) @@ FilaEn(b.cols, b.filas, i)]]

\* the parts taken in the order the threads stored them
ClavesEnOrdenDeLlegada == SelectSeq(claves, LAMBDA k : k # "dataset_unido")

\* the keys the merge reads, in the order it lists them
ClavesUnion == <<"ratios", "senales", "recomend">>

PartesDe(d, res) ==
  << [cols |-> ColumnasDf, filas |-> d] >> \o
  [j \in 1..Len(ClavesUnion) |-> [cols |-> ColumnasDe(ClavesUnion[j]), filas |-> res[ClavesUnion[j]]]]

\* df_final = pd.concat([...]), to_csv and to_excel; a missing key raises KeyError
Unir ==
  /\ mainpc = "concat"
  /\ IF \A j \in 1..Len(ClavesUnion) : ClavesUnion[j] \in DOMAIN resultados
     THEN /\ final' = << Concat(PartesDe(df, resultados)) >>
          /\ mainpc' = "fin"
          /\ UNCHANGED error
     ELSE /\ error' = "KeyError"
          /\ mainpc' = "abortado"
          /\ UNCHANGED final
  /\ UNCHANGED <<programa, corrida, filevars, poolvars, anavars, unido_csv>>

(* ---------------- the program is run again ---------------- *)
\* a new process: nothing but the files is left of the run before
NuevaCorrida ==
  /\ mainpc \in {"fin", "abortado"}
  /\ corrida < MaxCorridas
  /\ corrida' = corrida + 1
  /\ mainpc' = PrimeraFase(programa)
  /\ error' = ""
  /\ mapa' = <<>>
  /\ sem' = 0
  /\ lock' = 0
  /\ iniciados' = 0
  /\ unidos' = 0
  /\ pc' = [t \in Hilos |-> "sin_iniciar"]
  /\ html' = [t \in Hilos |-> <<>>]
  /\ datos' = [t \in Hilos |-> SinDatos]
  /\ pendiente' = [t \in Hilos |-> SinFila]
  /\ resultado' = [t \in Hilos |-> <<>>]
  /\ df' = <<>>
  /\ paso' = 0
  /\ est' = [h \in Etapas |-> "pendiente"]
  /\ juntados' = {}
  /\ lockA' = ""
  /\ resultados' = <<>>
  /\ claves' = <<>>
  /\ UNCHANGED <<programa, filevars, max_hilos, outvars>>

Next ==
  \/ ejecutar_scraping_cotizacion
  \/ IniciarPool
  \/ ArrancarHilo
  \/ \E t \in Hilos : procesar_empresa(t)
  \/ UnirHilo
  \/ Exportar
  \/ CargarDatos
  \/ Start
  \/ \E h \in Etapas : Etapa(h)
  \/ Join
  \/ Unir
  \/ NuevaCorrida

Spec == Init /\ [][Next]_vars

\* scraping_finanzas.py run on its own
NextPool ==
  \/ IniciarPool
  \/ ArrancarHilo
  \/ \E t \in Hilos : procesar_empresa(t)
  \/ UnirHilo
  \/ Exportar

SpecPool == InitPool /\ [][NextPool]_vars

\* one call of ejecutar_scraping_finanzas on a new database
InitPoolNuevo ==
  /\ InitPool
  /\ corrida = 1

\* the main thread goes on with its next statement, and a thread that can take
\* its next step (its request, parse or write ends, a free slot or a free lock
\* is given to one that waits for it) takes it
JustoPool ==
  /\ WF_vars(IniciarPool)
  /\ WF_vars(ArrancarHilo)
  /\ WF_vars(UnirHilo)
  /\ WF_vars(Exportar)
  /\ \A t \in Hilos : WF_vars(procesar_empresa(t))

SpecPoolJusto == InitPoolNuevo /\ [][NextPool]_vars /\ JustoPool

\* scraping_finanzas.py run as a script, again and again on the same database:
\* ejecutar_scraping_finanzas() with its default number of threads
InitScript ==
  /\ programa = "finanzas"
  /\ mainpc = PrimeraFase(programa)
  /\ corrida = 1
  /\ error = ""
  /\ cot_csv = <<>>
  /\ fin_csv = <<>>
  /\ empresas = <<>>
  /\ finanzas = <<>>
  /\ max_hilos = HilosDefecto
  /\ PoolInactivo
  /\ AnalisisInactivo
  /\ unido_csv = <<>>
  /\ final = <<>>

NextScript ==
  \/ IniciarPool
  \/ ArrancarHilo
  \/ \E t \in Hilos : procesar_empresa(t)
  \/ UnirHilo
  \/ Exportar
  \/ NuevaCorrida

SpecScript == InitScript /\ [][NextScript]_vars

\* analisis.py run on its own, on the files that earlier runs of the scrapers left
InitAnalisis ==
  /\ programa = "analisis"
  /\ mainpc = PrimeraFase(programa)
  /\ corrida = 1
  /\ error = ""
  /\ cot_csv \in {<<>>} \cup {<<tabla>> : tabla \in TablasSitio}
  /\ \/ /\ empresas = <<>>
        /\ finanzas = <<>>
        /\ fin_csv = <<>>
     \/ /\ empresas = InsertOrIgnore(<<>>, 1)
        /\ finanzas \in TablasTras(MaxCorridas)
        /\ fin_csv = << Consulta(finanzas, empresas, 1) >>
  /\ max_hilos = HilosMain
  /\ PoolInactivo
  /\ AnalisisInactivo
  /\ unido_csv = <<>>
  /\ final = <<>>

NextAnalisis ==
  \/ CargarDatos
  \/ Start
  \/ \E h \in Etapas : Etapa(h)
  \/ Join
  \/ Unir

SpecAnalisis == InitAnalisis /\ [][NextAnalisis]_vars

(* ---------------- analisis.py: the stage functions called one by one ---------------- *)
\* a row of a table given to a stage function
FilaBase == [nombre |-> "BBVA", ticker |-> "BBVA", per |-> None, bpa |-> None, ebitda |-> None,
             beneficio |-> None, deuda |-> None, fecha_registro |-> 1] @@ SinCotizacion

\* rows for calcular_ratios: operands absent, zero, positive and negative
FilasRatios ==
  { [FilaBase EXCEPT !.deuda = d, !.ebitda = e, !.beneficio = b] :
      d \in {None, <<0>>, <<30>>, <<-30>>},
      e \in {None, <<0>>, <<20>>, <<-20>>},
      b \in {None, <<0>>, <<10>>} }

\* rows for calcular_senales: cells absent, not numeric, and numbers on both
\* sides of each bound
FilasSenales ==
  { [FilaBase EXCEPT !.per = p, !.bpa = b] :
      p \in {None, Texto, <<-10>>, <<119>>, <<120>>, <<199>>, <<200>>, <<250>>},
      b \in {None, Texto, <<-2>>, <<4>>, <<5>>, <<14>>, <<15>>, <<20>>} }

\* rows for recomendar: a table that carries the two signal columns and the
\* debt ratio, the ratio absent or on both sides of 4 and 6
FilasRecomendar ==
  { FilaBase @@ [per_senal |-> p, bpa_senal |-> b, deuda_ebitda |-> q] :
      p \in {"Barata", "Media", "Cara", "Desconocido"},
      b \in {"Debil", "Media", "Alta", "Desconocido"},
      q \in {None, <<-30, 20>>, <<78, 20>>, <<40, 10>>, <<100, 20>>, <<60, 10>>,
             <<-61, -10>>, <<70, 10>>} }

\* rows put together in tables of two rows
FilasDePares ==
  { [FilaBase EXCEPT !.deuda = <<30>>, !.ebitda = <<20>>, !.beneficio = <<10>>],
    [FilaBase EXCEPT !.deuda = <<70>>, !.ebitda = <<0>>, !.beneficio = <<10>>],
    [FilaBase EXCEPT !.deuda = <<100>>, !.ebitda = <<-20>>] }

TablasDeEntrada ==
  {<<r>> : r \in FilasRatios \cup FilasSenales \cup FilasRecomendar}
    \cup {<<r1, r2>> : r1 \in FilasDePares, r2 \in FilasDePares}

InitFunciones ==
  /\ programa = "funciones"
  /\ mainpc = "llamadas"
  /\ corrida = 1
  /\ error = ""
  /\ cot_csv = <<>>
  /\ fin_csv = <<>>
  /\ empresas = <<>>
  /\ finanzas = <<>>
  /\ max_hilos = HilosMain
  /\ PoolInactivo
  /\ df \in TablasDeEntrada
  /\ paso = 0
  /\ est = [h \in Etapas |-> "pendiente"]
  /\ juntados = {}
  /\ lockA = ""
  /\ resultados = <<>>
  /\ claves = <<>>
  /\ unido_csv = <<>>
  /\ final = <<>>

\* a stage function is called with (df, resultados, lock), one call at a time
Llamar(h) ==
  /\ mainpc = "llamadas"
  /\ est[h] = "pendiente"
  /\ \A g \in Etapas : est[g] \in {"pendiente", "fin"}
  /\ est' = [est EXCEPT ![h] = "calcular"]
  /\ UNCHANGED <<programa, mainpc, corrida, error, filevars, poolvars, df, paso, juntados, lockA,
                 resultados, claves, outvars>>

NextFunciones ==
  \/ \E h \in Etapas : Llamar(h)
  \/ \E h \in Etapas : Calcular(h)
  \/ \E h \in Etapas : EntrarLock(h)
  \/ \E h \in Etapas : Publicar(h)

SpecFunciones == InitFunciones /\ [][NextFunciones]_vars

(* ======================= the claims ======================= *)

\* the threads between sem.acquire() and sem.release()
Activos == {t \in Hilos : pc[t] \in {"descargar", "lock", "insert", "commit", "unlock", "finally"}}

\* C1: in every reachable state of a pool run with max_hilos = K, at most K
\* threads are between their sem.acquire() and their sem.release()
C1_AtMostK == Cardinality(Activos) <= max_hilos

\* K threads are inside and another one is waiting at the gate
C1_Witness ==
  /\ Cardinality(Activos) = max_hilos
  /\ \E t \in Hilos : pc[t] = "acquire"

\* the threads inside the with block: at the INSERT, at the commit, or leaving
EnSeccion == {t \in Hilos : pc[t] \in {"insert", "commit", "unlock"}}

\* C2: never two threads inside the insert-and-commit section, and a thread is
\* inside it, from its INSERT to the end of its commit, only as holder of the lock
C2_MutualExclusion ==
  /\ Cardinality(EnSeccion) <= 1
  /\ \A t \in EnSeccion : lock = t

\* one thread is about to commit while another waits for the lock
C2_Witness ==
  \E t, u \in Hilos : /\ pc[t] = "commit"
                      /\ pendiente[t] # SinFila
                      /\ pc[u] = "lock"

\* C3: the Recommendation thread h3 stays pending until both h1 (Ratio) and h2
\* (Signal) have been joined, so it never runs while either of them runs
C3_RecommendationAfterJoin ==
  est["h3"] # "pendiente" =>
    /\ {"h1", "h2"} \subseteq juntados
    /\ est["h1"] \in {"fin", "muerto"}
    /\ est["h2"] \in {"fin", "muerto"}

\* h3 is computing, after h1 and h2 published and were joined
C3_Witness ==
  /\ est["h3"] = "calcular"
  /\ juntados = {"h1", "h2"}
  /\ {"ratios", "senales"} \subseteq DOMAIN resultados

\* ejecutar_scraping_finanzas has passed its join loop in this run
PoolDevuelto ==
  /\ programa # "analisis"
  /\ mainpc \in {"exportar", "fase3", "etapas", "concat", "fin", "abortado"}

\* the rows of table finanzas that thread t committed in the current run
FilasDeHilo(t) ==
  {k \in 1..Len(finanzas) :
     /\ finanzas[k].fecha_registro = corrida
     /\ empresas[finanzas[k].empresa_id].ticker = EMPRESAS[t].ticker}

\* C4: a row whose published signals are Barata (Cheap) and Alta (High) and whose
\* published deuda_ebitda is 5 is recommended Comprar (Buy) in the final table,
\* and a row with Cara (Expensive), Debil (Weak) and no debt ratio is Vender (Sell)
C4_RecommendationFromStageOutputs ==
  final # <<>> =>
    \A i \in 1..Len(final[1].filas) :
      LET r == final[1].filas[i]
      IN /\ (/\ r.per_senal = "Barata"
             /\ r.bpa_senal = "Alta"
             /\ r.deuda_ebitda # None
             /\ r.deuda_ebitda[1] = 5 * r.deuda_ebitda[2]) => r.recomendacion = "Comprar"
         /\ (/\ r.per_senal = "Cara"
             /\ r.bpa_senal = "Debil"
             /\ r.deuda_ebitda = None) => r.recomendacion = "Vender"

\* C5: a failure of one thread is caught in that thread, which then holds neither
\* the lock nor, once ended, a slot; the call raises nothing; a thread that logged
\* success has its row in the table; and while a started thread has not ended,
\* some thread can take a step, whatever has failed
C5_FailureIsolation ==
  /\ error = ""
  /\ \A t \in Hilos :
       /\ (resultado[t] # <<>> /\ resultado[t][1] = "error") =>
             (pc[t] \in {"finally", "fin"} /\ lock # t)
       /\ pc[t] = "fin" => (lock # t /\ Len(resultado[t]) = 1)
       /\ resultado[t] = <<"ok">> => Cardinality(FilasDeHilo(t)) = 1
  /\ (\A t \in Hilos : pc[t] = "fin") => (sem = max_hilos /\ lock = 0)
  /\ (\E t \in Hilos : pc[t] \notin {"sin_iniciar", "fin"}) =>
        ENABLED (\E t \in Hilos : procesar_empresa(t))

\* the call has returned with one thread failed and another one's row stored
C5_Witness ==
  /\ PoolDevuelto
  /\ \E t, u \in Hilos : /\ resultado[t] = <<"error">>
                         /\ resultado[u] = <<"ok">>
                         /\ Cardinality(FilasDeHilo(u)) = 1

\* C6: once the join loop is over (the export query comes after it), every one
\* of the N threads has ended and has logged exactly one outcome
C6_ReturnAfterAllTasks ==
  PoolDevuelto =>
    /\ unidos = Len(EMPRESAS)
    /\ \A t \in Hilos : /\ pc[t] = "fin"
                        /\ resultado[t] \in {<<"ok">>, <<"error">>}

\* the export is about to run after a run with a success and a failure
C6_Witness ==
  /\ mainpc = "exportar"
  /\ \E t, u \in Hilos : resultado[t] = <<"error">> /\ resultado[u] = <<"ok">>

\* C7: every row of the table is the complete row of one company (its id, the
\* time of the run and that company's own five figures); a thread that failed
\* has no row of the current run; and once the call has returned, the rows of
\* the current run are as many as the threads whose commit completed
C7_AllOrNothing ==
  /\ \A k \in 1..Len(finanzas) :
       /\ finanzas[k].empresa_id \in 1..Len(empresas)
       /\ \E t \in Hilos :
            /\ empresas[finanzas[k].empresa_id].ticker = EMPRESAS[t].ticker
            /\ finanzas[k] = Fila(finanzas[k].empresa_id, finanzas[k].fecha_registro,
                                  extraer_finanzas(PaginaDe(t)))
  /\ \A t \in Hilos :
       (resultado[t] # <<>> /\ resultado[t][1] = "error") => FilasDeHilo(t) = {}
  /\ PoolDevuelto =>
       Cardinality({k \in 1..Len(finanzas) : finanzas[k].fecha_registro = corrida})
         = Cardinality({t \in Hilos : resultado[t] = <<"ok">>})

\* the call has returned; one thread failed in its write (it had its datos),
\* another one committed
C7_Witness ==
  /\ PoolDevuelto
  /\ \E t, u \in Hilos : /\ resultado[t] = <<"error">>
                         /\ datos[t] # SinDatos
                         /\ resultado[u] = <<"ok">>

\* C8: the final table has the rows of df in the order of df, followed by the
\* columns of the ratios, of the signals and of the recommendation in that
\* order, each row's derived cells computed from that row of df, whichever
\* stage thread finished first
C8_FinalTableDeterministic ==
  final # <<>> =>
    LET T == final[1]
    IN /\ T.cols = ColumnasDf \o <<"deuda_ebitda", "ebitda_beneficio", "per_senal",
                                   "bpa_senal", "recomendacion">>
       /\ Len(T.filas) = Len(df)
       /\ \A i \in 1..Len(df) :
            /\ \A j \in 1..Len(ColumnasDf) : T.filas[i][ColumnasDf[j]] = df[i][ColumnasDf[j]]
            /\ T.filas[i].deuda_ebitda = safe_ratio(df[i].deuda, df[i].ebitda)
            /\ T.filas[i].ebitda_beneficio = safe_ratio(df[i].ebitda, df[i].beneficio)
            /\ T.filas[i].per_senal = per_sig(df[i].per)
            /\ T.filas[i].bpa_senal = bpa_sig(df[i].bpa)
            /\ T.filas[i].recomendacion = recomendar(df[i])

\* a final table of several rows, written in a run where the Signal thread
\* stored its result before the Ratio thread
C8_Witness ==
  /\ final # <<>>
  /\ Len(df) >= 2
  /\ Len(claves) >= 2
  /\ claves[1] = "senales"
  /\ claves[2] = "ratios"

\* the threads of the current run whose download failed
FalloDescarga == {t \in Hilos : resultado[t] = <<"error">> /\ html[t] = <<>>}

\* the rows of a table that belong to company t
FilasDeEmpresa(filas, t) == {i \in 1..Len(filas) : filas[i].nombre = EMPRESAS[t].name}

\* C9: when the first run of main() on an empty store ends with exactly one
\* download failed and every other thread successful, the final table has one
\* row per configured company: the failed company's row has no financial figure
\* and is classified Desconocido/Desconocido/Mantener, the others are populated
C9_FailedEntityKeepsRow ==
  (/\ programa = "main"
   /\ mainpc = "fin"
   /\ corrida = 1
   /\ Cardinality(FalloDescarga) = 1
   /\ \A t \in Hilos \ FalloDescarga : resultado[t] = <<"ok">>) =>
     /\ final # <<>>
     /\ Len(final[1].filas) = Len(EMPRESAS)
     /\ \A t \in Hilos :
          \E i \in FilasDeEmpresa(final[1].filas, t) :
            LET r == final[1].filas[i]
            IN IF t \in FalloDescarga
               THEN /\ r.per = None /\ r.bpa = None /\ r.ebitda = None
                    /\ r.beneficio = None /\ r.deuda = None
                    /\ r.per_senal = "Desconocido"
                    /\ r.bpa_senal = "Desconocido"
                    /\ r.recomendacion = "Mantener"
               ELSE r.per = extraer_finanzas(PaginaDe(t)).per

\* ejecutar_analisis has built df in this run
DfListo ==
  \/ mainpc \in {"etapas", "concat"}
  \/ mainpc = "fin" /\ programa # "finanzas"
  \/ mainpc = "abortado" /\ error = "KeyError"

\* the snapshots of company t in table finanzas
FotosDe(t) ==
  {k \in 1..Len(finanzas) : empresas[finanzas[k].empresa_id].ticker = EMPRESAS[t].ticker}

\* C10: whatever the number of runs, df has exactly one row for each company
\* that has snapshots, and that row is the company's most recent snapshot
C10_OneRowPerEntity ==
  DfListo =>
    \A t \in Hilos :
      FotosDe(t) # {} =>
        /\ Cardinality(FilasDeEmpresa(df, t)) = 1
        /\ \A i \in FilasDeEmpresa(df, t) :
             \A k \in FotosDe(t) : df[i].fecha_registro >= finanzas[k].fecha_registro

\* the table empresas once inicializar_bd has run on an empty database
EmpresasCompletas ==
  [k \in 1..Len(EMPRESAS) |-> [nombre |-> EMPRESAS[k].name, ticker |-> EMPRESAS[k].ticker]]

\* C11: in every run each ticker resolves to the same id (the place of its
\* company in EMPRESAS, given in the first run), table empresas never has more
\* than its one row per ticker however often the script is run, and every
\* snapshot row refers to one of those ids
C11_EntityIdStable ==
  /\ empresas \in {<<>>, EmpresasCompletas}
  /\ mapa # <<>> =>
       /\ DOMAIN mapa = {EMPRESAS[t].ticker : t \in Hilos}
       /\ \A t \in Hilos : mapa[EMPRESAS[t].ticker] = t
  /\ \A k \in 1..Len(finanzas) : finanzas[k].empresa_id \in 1..Len(empresas)

\* a later run has resolved the ids again and has added snapshots to those of
\* an earlier run
C11_Witness ==
  /\ corrida >= 2
  /\ mapa # <<>>
  /\ \E k, j \in 1..Len(finanzas) :
       /\ finanzas[k].fecha_registro = 1
       /\ finanzas[j].fecha_registro = corrida
       /\ finanzas[k].empresa_id = finanzas[j].empresa_id

\* ejecutar_analisis has come to its end, by its return or by an exception
AnalisisTerminado == programa # "finanzas" /\ mainpc \in {"fin", "abortado"}

\* the start() and join() calls of ejecutar_analisis are all done
GrafoTerminado == paso = Len(OrdenAnalisis)

\* C12: when one of the four stage threads has raised, ejecutar_analisis ends
\* by an error: it returns no path and writes no final table
C12_StageErrorAborts ==
  (AnalisisTerminado /\ \E h \in Etapas : est[h] = "muerto")
    => (mainpc = "abortado" /\ error # "" /\ final = <<>>)

\* C13: when the graph has finished and one of the four keys ratios, senales,
\* recomend, dataset_unido is not in resultados, the merge step ends by an
\* error and writes no final table
C13_MergeNeedsFourKeys ==
  (AnalisisTerminado /\ GrafoTerminado /\
   \E h \in Etapas : ClaveDe(h) \notin DOMAIN resultados)
    => (mainpc = "abortado" /\ error = "KeyError" /\ final = <<>>)

\* C17: a run that ends by the error of a missing input file has started no
\* pool thread and no stage thread
C17_MissingInputBeforeConcurrency ==
  error = "FileNotFoundError" =>
    /\ \A t \in Hilos : pc[t] = "sin_iniciar"
    /\ \A h \in Etapas : est[h] = "pendiente"

\* the four keys of resultados
ClavesTodas == {ClaveDe(h) : h \in Etapas}

\* in this state: a key that is in resultados was stored by its own stage,
\* which had finished computing and holds the value that stage computes; a
\* joined stage has ended; the merge step is reached with all four stages
\* joined and, when all of them succeeded, with all four keys
MapaEscritoUnaVez ==
  /\ DOMAIN resultados \subseteq ClavesTodas
  /\ \A h \in Etapas :
       /\ ClaveDe(h) \in DOMAIN resultados =>
            /\ est[h] = "fin"
            /\ resultados[ClaveDe(h)] = ValorDe(h, df)
       /\ (h \in juntados /\ DfListo) => est[h] \in {"fin", "muerto"}
       /\ (est[h] = "fin" /\ DfListo) => ClaveDe(h) \in DOMAIN resultados
  /\ (DfListo /\ mainpc # "etapas") => juntados = Etapas
  /\ (mainpc = "concat" /\ \A h \in Etapas : est[h] = "fin") => DOMAIN resultados = ClavesTodas

\* in this step: resultados changes only by one stage that is not yet joined
\* storing its own key, which was not there; a key once stored keeps its value
EscrituraUnica ==
  (resultados' # resultados /\ mainpc' # PrimeraFase(programa)) =>
    \E h \in Etapas :
      /\ est[h] = "publicar" /\ est'[h] = "fin"
      /\ h \notin juntados
      /\ ClaveDe(h) \notin DOMAIN resultados
      /\ DOMAIN resultados' = DOMAIN resultados \cup {ClaveDe(h)}
      /\ \A k \in DOMAIN resultados : resultados'[k] = resultados[k]

\* C14: every key of resultados is written at most once, by its own stage,
\* after that stage's computation and before its join, and the merge step
\* reads the map only after all four writers are joined: with all stages
\* successful it finds all four keys
C14_WriteOnce == []MapaEscritoUnaVez /\ [][EscrituraUnica]_vars

\* the merge step is about to read a map that four successful stages filled
C14_Witness ==
  /\ mainpc = "concat"
  /\ \A h \in Etapas : est[h] = "fin"
  /\ DOMAIN resultados = ClavesTodas
  /\ Len(claves) = 4
  /\ Len(df) >= 1

\* the stages between their start() and their end
Corriendo == {h \in Etapas : est[h] \in {"calcular", "lock", "publicar"}}

\* in this state: at most two stages run, h3 and h4 are pending until h1 and h2
\* are joined, the joins come in the order h1, h2, h3, h4 and a joined stage
\* has ended
DosFases ==
  /\ Cardinality(Corriendo) <= 2
  /\ \A h \in {"h3", "h4"} : est[h] # "pendiente" => {"h1", "h2"} \subseteq juntados
  /\ juntados \in {{}, {"h1"}, {"h1", "h2"}, {"h1", "h2", "h3"}, Etapas}
  /\ DfListo => \A h \in juntados : est[h] \in {"fin", "muerto"}
  /\ (paso >= 4 /\ DfListo) => {"h1", "h2"} \subseteq juntados
  /\ (paso <= 6 /\ DfListo) => juntados \subseteq {"h1", "h2"}

\* in this step of a run: a stage leaves pending only by its start, never
\* returns to pending, does not change once ended, and is joined once
UnaVez ==
  mainpc' # PrimeraFase(programa) =>
    /\ juntados \subseteq juntados'
    /\ Cardinality(juntados' \ juntados) <= 1
    /\ \A h \in Etapas :
         /\ est[h] # "pendiente" => est'[h] # "pendiente"
         /\ (est[h] = "pendiente" /\ est'[h] # est[h]) => est'[h] = "calcular"
         /\ est[h] \in {"fin", "muerto"} => est'[h] = est[h]
         /\ h \in juntados' \ juntados => est[h] \in {"fin", "muerto"}

\* C15: the graph runs in two phases: each stage is started, runs and is
\* joined once; the first two joins wait for h1 and h2, the last two for h3 and
\* h4; h3 and h4 do not run before h1 and h2 are joined; never more than two
\* stages run at once
C15_TwoPhases == []DosFases /\ [][UnaVez]_vars

\* the second phase with its two stages running together
C15_Witness ==
  /\ Corriendo = {"h3", "h4"}
  /\ juntados = {"h1", "h2"}
  /\ paso = 6

\* C16: from the first start() to the merge step, df is the table that
\* ejecutar_analisis built from the two files: no stage changes a row or a
\* column of it
C16_DatasetUnchanged == DfListo => df = Merge(fin_csv[1], cot_csv[1], 1)

\* the Ratio and Signal stages have computed and published on a table with rows
C16_Witness ==
  /\ mainpc = "etapas"
  /\ Len(df) >= 1
  /\ est["h1"] = "fin"
  /\ est["h2"] = "fin"
  /\ est["h3"] = "lock"

\* a / b <= n and a / b >= n for the quotient q = <<a, b>> of two numbers
NoMasDe(q, n) == (q[1] - n * q[2]) * q[2] <= 0
NoMenosDe(q, n) == (q[1] - n * q[2]) * q[2] >= 0

\* the rule as the claim states it
ReglaEsperada(per, bpa, q) ==
  IF per \in {"Barata", "Media"} /\ bpa \in {"Media", "Alta"} /\ (q = None \/ NoMasDe(q, 6))
  THEN "Comprar"
  ELSE IF per = "Cara" /\ bpa = "Debil" /\ (q = None \/ NoMenosDe(q, 4))
  THEN "Vender"
  ELSE "Mantener"

\* the tables whose rows carry the inputs of recomendar
ConSenales == \A i \in 1..Len(df) : "per_senal" \in DOMAIN df[i]

\* C18: on a row that carries a per class, a bpa class and a debt ratio,
\* recomendar returns Comprar when per is Barata or Media, bpa is Media or Alta
\* and the ratio is absent or <= 6; else Vender when per is Cara, bpa is Debil
\* and the ratio is absent or >= 4; else Mantener
C18_RecommendationRule ==
  ("recomend" \in DOMAIN resultados /\ ConSenales) =>
    /\ Len(resultados["recomend"]) = Len(df)
    /\ \A i \in 1..Len(df) :
         resultados["recomend"][i].recomendacion =
           ReglaEsperada(df[i].per_senal, df[i].bpa_senal, df[i].deuda_ebitda)

\* Barata / Alta with a ratio of exactly 6 was recommended as Comprar
C18_Witness ==
  /\ programa = "funciones"
  /\ "recomend" \in DOMAIN resultados
  /\ ConSenales
  /\ df[1].per_senal = "Barata"
  /\ df[1].bpa_senal = "Alta"
  /\ df[1].deuda_ebitda = <<60, 10>>
  /\ resultados["recomend"][1].recomendacion = "Comprar"

\* the quotient q is what the claim says of the operands a and b
CocienteEsperado(q, a, b) ==
  /\ q = None <=> (a = None \/ b = None \/ b[1] = 0)
  /\ q # None => (q[2] # 0 /\ q[1] * b[1] = a[1] * q[2])

\* C19: row i of the published ratios belongs to row i of df; deuda_ebitda is
\* absent exactly when deuda is absent, ebitda is absent or ebitda is 0, and
\* is deuda / ebitda with a divisor other than 0 otherwise; ebitda_beneficio
\* likewise from ebitda and beneficio
C19_RatioPolicy ==
  ("ratios" \in DOMAIN resultados /\ programa = "funciones") =>
    /\ Len(resultados["ratios"]) = Len(df)
    /\ \A i \in 1..Len(df) :
         /\ CocienteEsperado(resultados["ratios"][i].deuda_ebitda, df[i].deuda, df[i].ebitda)
         /\ CocienteEsperado(resultados["ratios"][i].ebitda_beneficio, df[i].ebitda,
                             df[i].beneficio)

\* a table of two rows, the first with a divisor of 0 and the second without:
\* the first ratio is absent and the second is not
C19_Witness ==
  /\ programa = "funciones"
  /\ "ratios" \in DOMAIN resultados
  /\ Len(df) = 2
  /\ df[1].ebitda = <<0>>
  /\ df[2].ebitda = <<-20>>
  /\ resultados["ratios"][1].deuda_ebitda = None
  /\ resultados["ratios"][2].deuda_ebitda # None

\* the classes as the claim states them, on numbers counted in tenths
ClasePer(x) ==
  IF x = None \/ x = Texto THEN "Desconocido"
  ELSE IF x[1] < 120 THEN "Barata"
  ELSE IF 120 <= x[1] /\ x[1] < 200 THEN "Media"
  ELSE "Cara"

ClaseBpa(x) ==
  IF x = None \/ x = Texto THEN "Desconocido"
  ELSE IF x[1] < 5 THEN "Debil"
  ELSE IF 5 <= x[1] /\ x[1] < 15 THEN "Media"
  ELSE "Alta"

\* C20: per below 12 is classified Barata, from 12 and below 20 Media, from 20
\* Cara; bpa below 0.5 Debil, from 0.5 and below 1.5 Media, from 1.5 Alta; an
\* absent or not numeric cell is classified Desconocido
C20_SignalThresholds ==
  ("senales" \in DOMAIN resultados /\ programa = "funciones") =>
    /\ Len(resultados["senales"]) = Len(df)
    /\ \A i \in 1..Len(df) :
         /\ resultados["senales"][i].per_senal = ClasePer(df[i].per)
         /\ resultados["senales"][i].bpa_senal = ClaseBpa(df[i].bpa)

\* per exactly 12 was classified Media and a bpa that is not a number Desconocido
C20_Witness ==
  /\ programa = "funciones"
  /\ "senales" \in DOMAIN resultados
  /\ df[1].per = <<120>>
  /\ df[1].bpa = Texto
  /\ resultados["senales"][1].per_senal = "Media"
  /\ resultados["senales"][1].bpa_senal = "Desconocido"

\* in this state: the slots taken are those of the threads between acquire and
\* release, the lock is held only by a thread that holds a slot and never by one
\* that waits for a slot, and once the join loop is over every slot is free and
\* the lock is free
RecursosEnOrden ==
  /\ mapa # <<>> => sem = max_hilos - Cardinality(Activos)
  /\ \A t \in Hilos :
       /\ lock = t => (pc[t] \in {"insert", "commit", "unlock"} /\ sem < max_hilos)
       /\ pc[t] \in {"sin_iniciar", "acquire", "fin"} => lock # t
  /\ PoolDevuelto => (sem = max_hilos /\ lock = 0)

\* C21: with every step of a thread ending and fair scheduling, every thread
\* that waits at the gate gets a slot, the call of ejecutar_scraping_finanzas
\* returns, and from the end of its join loop on all max_hilos slots are free
\* and the lock is free; the lock is taken only by a thread that holds a slot
C21_PoolTerminates ==
  /\ []RecursosEnOrden
  /\ \A t \in Hilos : (pc[t] = "acquire") ~> (pc[t] = "descargar")
  /\ <>(mainpc = "fin")

\* the call has returned from a pool with fewer slots than threads, after a
\* write that failed inside the lock and another that succeeded
C21_Witness ==
  /\ mainpc = "fin"
  /\ max_hilos < Len(EMPRESAS)
  /\ sem = max_hilos
  /\ lock = 0
  /\ \E t, u \in Hilos : /\ resultado[t] = <<"error">>
                         /\ html[t] # <<>>
                         /\ datos[t] # SinDatos
                         /\ resultado[u] = <<"ok">>

====
